---- MODULE Spec2Model ----
(***************************************************************************)
(* Model of the reconciliation engine of MusicBrainz2Notion:               *)
(*   - MusicBrainzEntity.update_notion_page and the materialization of     *)
(*     missing credited artists (database_entities.py),                    *)
(*   - move_to_trash_outdated_entity_pages (database_utils.py).            *)
(* The Notion workspace is modelled as a sequence of pages in allocation   *)
(* order; a database query returns the pages of one database that are not  *)
(* archived and match the filter, PageSize at a time.                      *)
(***************************************************************************)
EXTENDS Integers, Sequences, FiniteSets, TLC

\* ------------------------------------------------------------------------
\* Bounds of the model
\* ------------------------------------------------------------------------
MaxPages == 3
PageSize == 2
MaxFailAt == 4
MaxTags == 4
MaxMinTags == 3
MaxGroups == 2
MaxCatalog == 3
MaxBrowseLimit == 2
MaxRequests == 6

\* ------------------------------------------------------------------------
\* Identifiers
\* ------------------------------------------------------------------------
PageIds == <<"p1", "p2", "p3", "p4", "p5", "p6", "p7", "p8">>

ArtistMBIDs == {"a1", "a2"}
ReleaseMBIDs == {"r1", "r2", "r3"}
RecordingMBIDs == {"t1"}

NoMbid == ""

Range(s) == {s[i] : i \in 1..Len(s)}

\* ------------------------------------------------------------------------
\* The kinds of entity and the property that holds their title
\* ------------------------------------------------------------------------
EntityType == {"artist", "release", "recording"}

\* ArtistDBProperty.NAME / ReleaseDBProperty.NAME are written with
\* format_title; the recording database has no "Name" property, its title
\* property is TrackDBProperty.TITLE.
NotionBDProperty(db) ==
    IF db = "recording" THEN [key |-> "Title", type |-> "title"]
                        ELSE [key |-> "Name", type |-> "title"]

\* get_page_name reads properties["Name"]["rich_text"]; the lookup raises
\* KeyError unless the database has a "Name" property of type rich_text.
get_page_name(page) ==
    LET p == NotionBDProperty(page.db)
    IN  [ok |-> p.key = "Name" /\ p.type = "rich_text", name |-> page.name]

get_page_id(i) == PageIds[i]

\* ------------------------------------------------------------------------
\* Call context threaded through one handler: the store, the Identifier
\* Map, the trace of external calls, the log, the pending exception and
\* the last response id.
\* ------------------------------------------------------------------------
StoreOps == {"query", "create", "update", "archive"}

NStore(calls) == Cardinality({i \in 1..Len(calls) : calls[i].op \in StoreOps})

\* The failAt-th store request of the handler fails (0: none fails).
Fails(c, failAt) == NStore(c.calls) + 1 = failAt

Call(op, on, ok) == [op |-> op, on |-> on, ok |-> ok]

MapPut(map, k, v) == [x \in (DOMAIN map) \cup {k} |-> IF x = k THEN v ELSE map[x]]

Ctx(pages, map) ==
    [pages |-> pages, map |-> map, calls |-> <<>>, log |-> {},
     err |-> "none", resp |-> ""]

\* ------------------------------------------------------------------------
\* Field-sets
\* ------------------------------------------------------------------------
\* The name every normalized entity of the model carries; the pages that
\* exist before the run are named "n0".
EntityName == "n1"

\* [mbid_to_page_id_map[mbid] for mbid in self.artist_mbids]
RelationIds(map, mbids) == [i \in 1..Len(mbids) |-> map[mbids[i]]]

\* [page_id for mbid in self.release_mbids if (page_id := map.get(mbid))]
RECURSIVE ResolvedIds(_, _)
ResolvedIds(map, mbids) ==
    IF mbids = <<>> THEN <<>>
    ELSE IF Head(mbids) \in DOMAIN map
         THEN <<map[Head(mbids)]>> \o ResolvedIds(map, Tail(mbids))
         ELSE ResolvedIds(map, Tail(mbids))

\* to_page_properties of the three kinds.  The artist field-set carries no
\* "mbid" property.  The subscript mbid_to_page_id_map[mbid] raises KeyError
\* for a credited artist that is not a key of the map.
to_page_properties(e, map) ==
    IF e.kind = "artist"
    THEN [ok |-> TRUE, props |-> [name |-> EntityName]]
    ELSE IF ~(Range(e.artists) \subseteq DOMAIN map)
    THEN [ok |-> FALSE, props |-> [name |-> EntityName]]
    ELSE IF e.kind = "release"
    THEN [ok |-> TRUE,
          props |-> [mbid |-> e.mbid, name |-> EntityName,
                     artists |-> RelationIds(map, e.artists)]]
    ELSE [ok |-> TRUE,
          props |-> [mbid |-> e.mbid, name |-> EntityName,
                     releases |-> ResolvedIds(map, e.releases),
                     artists |-> RelationIds(map, e.artists)]]

\* pages.create: a new page holds the given properties, the others are empty.
NewPage(db, props) ==
    [db |-> db, archived |-> FALSE, name |-> props.name,
     mbid |-> IF "mbid" \in DOMAIN props THEN props.mbid ELSE NoMbid,
     artists |-> IF "artists" \in DOMAIN props THEN Range(props.artists) ELSE {},
     releases |-> IF "releases" \in DOMAIN props THEN Range(props.releases) ELSE {}]

\* pages.update: only the given properties are overwritten.
WritePage(page, props) ==
    [page EXCEPT
       !.name = props.name,
       !.mbid = IF "mbid" \in DOMAIN props THEN props.mbid ELSE @,
       !.artists = IF "artists" \in DOMAIN props THEN Range(props.artists) ELSE @,
       !.releases = IF "releases" \in DOMAIN props THEN Range(props.releases) ELSE @]

\* databases.query with the filter {"property": "mbid", rich_text equals mbid}
QueryByMbid(pages, db, mbid) ==
    {i \in 1..Len(pages) :
        pages[i].db = db /\ ~pages[i].archived /\ pages[i].mbid = mbid}

Min(S) == CHOOSE x \in S : \A y \in S : x <= y

\* ------------------------------------------------------------------------
\* External catalog
\* ------------------------------------------------------------------------
\* env: the behaviour of the collaborators during one handler:
\*   pick      iteration order of the set of missing MBIDs,
\*   fetchFail MBIDs whose catalog request raises WebServiceError,
\*   noType    MBIDs whose raw artist data has no "type" key,
\*   failAt    index of the store request that fails (0: none).
\* A fetch that returns None on a WebServiceError without logging it.
fetch_MB_entity_data_silent(c, mbid, env) ==
    [c EXCEPT !.calls = Append(@, Call("fetch", mbid, mbid \notin env.fetchFail))]

\* fetch_MB_entity_data: a WebServiceError is logged with logger.error and
\* None is returned.
fetch_MB_entity_data(c, mbid, env) ==
    IF mbid \in env.fetchFail
    THEN [c EXCEPT !.calls = Append(@, Call("fetch", mbid, FALSE)),
                   !.log = @ \cup {<<"fetch_error", mbid>>}]
    ELSE [c EXCEPT !.calls = Append(@, Call("fetch", mbid, TRUE))]

\* Artist.from_musicbrainz_data: artist_data["type"] raises KeyError when
\* the raw data has no "type" key.
from_musicbrainz_data(mbid, env) ==
    [ok |-> mbid \notin env.noType,
     entity |-> [kind |-> "artist", mbid |-> mbid,
                 artists |-> <<>>, releases |-> <<>>]]

\* ------------------------------------------------------------------------
\* update_notion_page, lines 179-223: query for the page by MBID, then
\* update the first result or create a page and record it in the map.
\* ------------------------------------------------------------------------
\* Lines 198-206: pages.update on the first result of the query.  The
\* field-set is built before the request is sent.
update_page(c, e, i, env) ==
    LET built == to_page_properties(e, c.map)
        c1 == [c EXCEPT !.calls = Append(@, Call("props", e.mbid, built.ok))]
        page_id == get_page_id(i)
    IN  IF ~built.ok
        THEN [c1 EXCEPT !.log = @ \cup {<<"update_error", e.mbid>>},
                        !.err = "KeyError"]
        ELSE IF Fails(c1, env.failAt)
        THEN [c1 EXCEPT !.calls = Append(@, Call("update", page_id, FALSE)),
                        !.log = @ \cup {<<"update_error", e.mbid>>},
                        !.err = "StoreError"]
        ELSE [c1 EXCEPT !.calls = Append(@, Call("update", page_id, TRUE)),
                        !.pages[i] = WritePage(@, built.props),
                        !.resp = page_id]

\* A create that records the map entry before the store has answered.
create_page_map_first(c, e, env) ==
    LET built == to_page_properties(e, c.map)
        c1 == [c EXCEPT !.calls = Append(@, Call("props", e.mbid, built.ok))]
        page_id == get_page_id(Len(c.pages) + 1)
    IN  IF ~built.ok
        THEN [c1 EXCEPT !.log = @ \cup {<<"create_error", e.mbid>>},
                        !.err = "KeyError"]
        ELSE IF Fails(c1, env.failAt)
        THEN [c1 EXCEPT !.calls = Append(@, Call("create", e.mbid, FALSE)),
                        !.log = @ \cup {<<"create_error", e.mbid>>},
                        !.map = MapPut(@, e.mbid, page_id),
                        !.err = "StoreError"]
        ELSE [c1 EXCEPT !.calls = Append(@, Call("create", e.mbid, TRUE)),
                        !.pages = Append(@, NewPage(e.kind, built.props)),
                        !.map = MapPut(@, e.mbid, page_id),
                        !.resp = page_id]

\* Lines 211-221: pages.create, then mbid_to_page_id_map[self.mbid] = id of
\* the response.
create_page(c, e, env) ==
    LET built == to_page_properties(e, c.map)
        c1 == [c EXCEPT !.calls = Append(@, Call("props", e.mbid, built.ok))]
        page_id == get_page_id(Len(c.pages) + 1)
    IN  IF ~built.ok
        THEN [c1 EXCEPT !.log = @ \cup {<<"create_error", e.mbid>>},
                        !.err = "KeyError"]
        ELSE IF Fails(c1, env.failAt)
        THEN [c1 EXCEPT !.calls = Append(@, Call("create", e.mbid, FALSE)),
                        !.log = @ \cup {<<"create_error", e.mbid>>},
                        !.err = "StoreError"]
        ELSE [c1 EXCEPT !.calls = Append(@, Call("create", e.mbid, TRUE)),
                        !.pages = Append(@, NewPage(e.kind, built.props)),
                        !.map = MapPut(@, e.mbid, page_id),
                        !.resp = page_id]

query_and_write(c, e, env) ==
    IF c.err # "none" THEN c
    ELSE IF Fails(c, env.failAt)
    THEN [c EXCEPT !.calls = Append(@, Call("query", e.mbid, FALSE)),
                   !.log = @ \cup {<<"query_error", e.mbid>>},
                   !.err = "StoreError"]
    ELSE
    LET c1 == [c EXCEPT !.calls = Append(@, Call("query", e.mbid, TRUE))]
        results == QueryByMbid(c1.pages, e.kind, e.mbid)
    IN  IF results # {}
        THEN update_page(c1, e, Min(results), env)
        ELSE create_page(c1, e, env)

\* ------------------------------------------------------------------------
\* Materialization of the missing credited artists
\* ------------------------------------------------------------------------
RECURSIVE update_notion_page(_, _, _)

\* The loop of _add_entity_type_missing_related over the missing MBIDs.
RECURSIVE add_missing_loop(_, _, _)
add_missing_loop(c, order, env) ==
    IF order = <<>> \/ c.err # "none" THEN c
    ELSE
    LET mbid == Head(order)
        c1 == fetch_MB_entity_data(c, mbid, env)
        data == from_musicbrainz_data(mbid, env)
    IN  IF mbid \in env.fetchFail
        THEN add_missing_loop(c1, Tail(order), env)
        ELSE IF ~data.ok
        THEN [c1 EXCEPT !.err = "KeyError"]
        ELSE LET c2 == update_notion_page(c1, data.entity, env)
                 c3 == IF c2.err = "none"
                       THEN [c2 EXCEPT !.map = MapPut(@, mbid, c2.resp)]
                       ELSE c2
             IN  add_missing_loop(c3, Tail(order), env)

\* A materialization that walks the credit list itself, repetitions
\* included.
add_entity_type_missing_list(c, entity_mbids, env) ==
    add_missing_loop(c, SelectSeq(entity_mbids, LAMBDA m : m \notin DOMAIN c.map),
                     env)

\* _add_entity_type_missing_related for entity_cls = Artist
add_entity_type_missing_related(c, entity_mbids, env) ==
    LET missing_entity_mbids == Range(entity_mbids) \ DOMAIN c.map
        order == SelectSeq(env.pick, LAMBDA m : m \in missing_entity_mbids)
    IN  add_missing_loop(c, order, env)

\* _add_missing_related_pages: nothing for an artist, the credited artists
\* for a release and for a recording.
add_missing_related_pages(c, e, env) ==
    IF e.kind = "artist" THEN c
    ELSE add_entity_type_missing_related(c, e.artists, env)

\* A synchronization that writes the entity before it materializes the
\* missing credited artists.
update_notion_page_write_first(c, e, env) ==
    LET w == query_and_write(c, e, env)
        m == add_missing_related_pages([w EXCEPT !.err = "none"], e, env)
    IN  [m EXCEPT !.err = IF w.err # "none" THEN w.err ELSE m.err]

update_notion_page(c, e, env) ==
    query_and_write(add_missing_related_pages(c, e, env), e, env)

\* ------------------------------------------------------------------------
\* Stale sweep
\* ------------------------------------------------------------------------
RECURSIVE Ascending(_)
Ascending(S) == IF S = {} THEN <<>> ELSE <<Min(S)>> \o Ascending(S \ {Min(S)})

\* The "or" of {"relation": {"contains": artist_page_id}}: an empty "or"
\* restricts nothing.
query_filter(page, artist_page_ids) ==
    artist_page_ids = {} \/ page.artists \cap artist_page_ids # {}

\* databases.query(database_id, filter, start_cursor): one page of results
\* in allocation order, from the cursor on.
QueryByArtists(pages, db, artist_page_ids, start_cursor) ==
    LET m == Ascending({i \in 1..Len(pages) :
                 /\ i >= start_cursor
                 /\ pages[i].db = db
                 /\ ~pages[i].archived
                 /\ query_filter(pages[i], artist_page_ids)})
    IN  [results |-> SubSeq(m, 1, IF Len(m) > PageSize THEN PageSize ELSE Len(m)),
         has_more |-> Len(m) > PageSize,
         next_cursor |-> IF Len(m) > PageSize THEN m[PageSize + 1] ELSE 0]

\* An archive that also drops the map entries of the archived page.
archive_page_forgetting(c, i, env) ==
    IF Fails(c, env.failAt)
    THEN [c EXCEPT !.calls = Append(@, Call("archive", get_page_id(i), FALSE)),
                   !.err = "StoreError"]
    ELSE [c EXCEPT !.calls = Append(@, Call("archive", get_page_id(i), TRUE)),
                   !.pages[i].archived = TRUE,
                   !.map = [m \in {k \in DOMAIN c.map : c.map[k] # get_page_id(i)}
                              |-> c.map[m]]]

\* pages.update(page_id, archived=True)
archive_page(c, i, env) ==
    IF Fails(c, env.failAt)
    THEN [c EXCEPT !.calls = Append(@, Call("archive", get_page_id(i), FALSE)),
                   !.err = "StoreError"]
    ELSE [c EXCEPT !.calls = Append(@, Call("archive", get_page_id(i), TRUE)),
                   !.pages[i].archived = TRUE]

\* Lines 231-235: the results of the first query.
RECURSIVE trash_first_results(_, _, _, _)
trash_first_results(c, results, updated_entity_page_ids, env) ==
    IF results = <<>> \/ c.err # "none" THEN c
    ELSE LET i == Head(results)
             c1 == IF get_page_id(i) \notin updated_entity_page_ids
                   THEN archive_page(c, i, env)
                   ELSE c
         IN  trash_first_results(c1, Tail(results), updated_entity_page_ids, env)

\* Lines 252-257: the results of one query of the paginated loop; the page
\* name is read before the page is archived.
RECURSIVE trash_page_results(_, _, _, _)
trash_page_results(c, results, updated_entity_page_ids, env) ==
    IF results = <<>> \/ c.err # "none" THEN c
    ELSE LET i == Head(results)
             c1 == IF get_page_id(i) \notin updated_entity_page_ids
                   THEN IF get_page_name(c.pages[i]).ok
                        THEN archive_page(c, i, env)
                        ELSE [c EXCEPT !.err = "KeyError"]
                   ELSE c
         IN  trash_page_results(c1, Tail(results), updated_entity_page_ids, env)

\* Lines 237-261: the paginated loop; a failing query is logged as a
\* warning and ends the sweep.
RECURSIVE trash_paginated(_, _, _, _, _, _)
trash_paginated(c, db, updated_entity_page_ids, artist_page_ids, start_cursor, env) ==
    IF c.err # "none" THEN c
    ELSE IF Fails(c, env.failAt)
    THEN [c EXCEPT !.calls = Append(@, Call("query", db, FALSE)),
                   !.log = @ \cup {<<"query_warning", db>>}]
    ELSE LET q == QueryByArtists(c.pages, db, artist_page_ids, start_cursor)
             c1 == [c EXCEPT !.calls = Append(@, Call("query", db, TRUE))]
             c2 == trash_page_results(c1, q.results, updated_entity_page_ids, env)
         IN  IF c2.err = "none" /\ q.has_more
             THEN trash_paginated(c2, db, updated_entity_page_ids, artist_page_ids,
                                  q.next_cursor, env)
             ELSE c2

\* Lines 217-261: the sweep once the set of artists is known not to be empty.
trash_outdated(c, db, updated_entity_page_ids, artist_page_ids, env) ==
    IF Fails(c, env.failAt)
    THEN [c EXCEPT !.calls = Append(@, Call("query", db, FALSE)),
                   !.err = "StoreError"]
    ELSE LET q == QueryByArtists(c.pages, db, artist_page_ids, 1)
             c1 == [c EXCEPT !.calls = Append(@, Call("query", db, TRUE))]
             c2 == trash_first_results(c1, q.results, updated_entity_page_ids, env)
         IN  trash_paginated(c2, db, updated_entity_page_ids, artist_page_ids, 1, env)

\* A sweep without the early return on an empty set of artists.
move_to_trash_unguarded(c, db, updated_entity_page_ids, artist_page_ids, env) ==
    trash_outdated(c, db, updated_entity_page_ids, artist_page_ids, env)

\* Lines 214-215: nothing is done when there is no updated artist.
move_to_trash_outdated_entity_pages(c, db, updated_entity_page_ids, artist_page_ids, env) ==
    IF artist_page_ids = {}
    THEN c
    ELSE trash_outdated(c, db, updated_entity_page_ids, artist_page_ids, env)

\* ------------------------------------------------------------------------
\* The pass over the artists flagged for update (main.py)
\* ------------------------------------------------------------------------
\* The "To update" checkboxes are kept beside the pages: marked is the set
\* of ids of the pages whose checkbox is checked.
PassCtx(ps, marked) ==
    [pages |-> ps, calls |-> <<>>, log |-> {}, err |-> "none",
     marked |-> marked, flagged |-> <<>>]

\* query_notion_for_updates: one databases.query with the filter
\* "To update" equals True; response.get("results", []) is the first page of
\* results only, and an exception is logged and [] is returned.
query_notion_for_updates(c, env) ==
    IF Fails(c, env.failAt)
    THEN [c EXCEPT !.calls = Append(@, Call("query", "artist", FALSE)),
                   !.log = @ \cup {<<"query_error", "artist">>}]
    ELSE LET q == QueryByArtists(
                     [i \in 1..Len(c.pages) |->
                        [c.pages[i] EXCEPT !.archived =
                            @ \/ get_page_id(i) \notin c.marked]],
                     "artist", {}, 1)
         IN  [c EXCEPT !.calls = Append(@, Call("query", "artist", TRUE)),
                       !.flagged = q.results]

\* fetch_artist_data of main.py: a WebServiceError is logged and None is
\* returned.
fetch_artist_data(c, mbid, env) ==
    IF mbid \in env.fetchFail
    THEN [c EXCEPT !.calls = Append(@, Call("fetch", mbid, FALSE)),
                   !.log = @ \cup {<<"fetch_error", mbid>>}]
    ELSE [c EXCEPT !.calls = Append(@, Call("fetch", mbid, TRUE))]

\* update_notion_page of main.py, lines 152-192: the field-set of
\* Artist.to_page_properties sets "To update" to False and carries neither
\* the "Name" nor the "mbid" property; any exception is logged and re-raised.
main_update_notion_page(c, mbid, env) ==
    IF Fails(c, env.failAt)
    THEN [c EXCEPT !.calls = Append(@, Call("query", mbid, FALSE)),
                   !.log = @ \cup {<<"update_error", mbid>>},
                   !.err = "StoreError"]
    ELSE
    LET c1 == [c EXCEPT !.calls = Append(@, Call("query", mbid, TRUE))]
        results == QueryByMbid(c1.pages, "artist", mbid)
    IN  IF Fails(c1, env.failAt)
        THEN [c1 EXCEPT !.calls = Append(@,
                            Call(IF results # {} THEN "update" ELSE "create",
                                 mbid, FALSE)),
                        !.log = @ \cup {<<"update_error", mbid>>},
                        !.err = "StoreError"]
        ELSE IF results # {}
        THEN [c1 EXCEPT !.calls = Append(@, Call("update", mbid, TRUE)),
                        !.marked = @ \ {get_page_id(Min(results))}]
        ELSE [c1 EXCEPT !.calls = Append(@, Call("create", mbid, TRUE)),
                        !.pages = Append(@, NewPage("artist", [name |-> ""]))]

\* The loop of update_artists_from_notion, lines 618-636, over the pages
\* the query returned.
RECURSIVE update_artists_loop(_, _, _)
update_artists_loop(c, todo, env) ==
    IF todo = <<>> \/ c.err # "none" THEN c
    ELSE
    LET page == c.pages[Head(todo)]
        mbid == page.mbid
    IN  IF mbid = NoMbid
        THEN [c EXCEPT !.err = "IndexError"]
        ELSE
        LET c1 == fetch_artist_data(c, mbid, env)
        IN  IF mbid \in env.fetchFail
            THEN update_artists_loop(
                     [c1 EXCEPT !.log = @ \cup {<<"failed_to_update", mbid>>}],
                     Tail(todo), env)
            ELSE IF mbid \in env.noType
            THEN [c1 EXCEPT !.err = "KeyError"]
            ELSE update_artists_loop(main_update_notion_page(c1, mbid, env),
                                     Tail(todo), env)

\* update_artists_from_notion, lines 607-636.
update_artists_from_notion(c, env) ==
    LET c1 == query_notion_for_updates(c, env)
    IN  update_artists_loop(c1, c1.flagged, env)

\* ------------------------------------------------------------------------
\* Bulk reads of a database (database_utils.py)
\* ------------------------------------------------------------------------
\* The checkbox "To update" of the page i
is_page_marked_for_update(c, i) == get_page_id(i) \in c.marked

\* The MBID of the page i
get_page_mbid(c, i) == c.pages[i].mbid

ScanCtx(ps, marked) ==
    [pages |-> ps, marked |-> marked, calls |-> <<>>, log |-> {},
     err |-> "none", map |-> <<>>, to_update |-> <<>>]

\* {get_page_mbid(page): get_page_id(page) for page in results}: the last
\* result of an MBID wins.
new_id_maps(c, results) ==
    [m \in {get_page_mbid(c, results[k]) : k \in 1..Len(results)} |->
        get_page_id(results[CHOOSE k \in 1..Len(results) :
              /\ get_page_mbid(c, results[k]) = m
              /\ \A j \in 1..Len(results) :
                    get_page_mbid(c, results[j]) = m => j <= k])]

\* The MBIDs of the results that are marked for update, in their order
RECURSIVE marked_mbids(_, _)
marked_mbids(c, results) ==
    IF results = <<>> THEN <<>>
    ELSE (IF is_page_marked_for_update(c, Head(results))
          THEN <<get_page_mbid(c, Head(results))>> ELSE <<>>)
         \o marked_mbids(c, Tail(results))

\* The loop of compute_mbid_to_page_id_map, lines 113-132
RECURSIVE compute_map_loop(_, _, _, _)
compute_map_loop(c, db, start_cursor, env) ==
    IF Fails(c, env.failAt)
    THEN [c EXCEPT !.calls = Append(@, Call("query", db, FALSE)),
                   !.log = @ \cup {<<"query_error", db>>},
                   !.err = "StoreError"]
    ELSE LET q == QueryByArtists(c.pages, db, {}, start_cursor)
             c1 == [c EXCEPT !.calls = Append(@, Call("query", db, TRUE)),
                             !.map = new_id_maps(c, q.results) @@ @]
         IN  IF q.has_more
             THEN compute_map_loop(c1, db, q.next_cursor, env)
             ELSE c1

\* The loop of fetch_artists_to_update, lines 163-183
RECURSIVE fetch_artists_loop(_, _, _, _)
fetch_artists_loop(c, db, start_cursor, env) ==
    IF Fails(c, env.failAt)
    THEN [c EXCEPT !.calls = Append(@, Call("query", db, FALSE)),
                   !.log = @ \cup {<<"query_error", db>>},
                   !.err = "StoreError"]
    ELSE LET q == QueryByArtists(c.pages, db, {}, start_cursor)
             c1 == [c EXCEPT !.calls = Append(@, Call("query", db, TRUE)),
                             !.map = new_id_maps(c, q.results) @@ @,
                             !.to_update = @ \o marked_mbids(c, q.results)]
         IN  IF q.has_more
             THEN fetch_artists_loop(c1, db, q.next_cursor, env)
             ELSE c1

fetch_artists_to_update(c, env) == fetch_artists_loop(c, "artist", 1, env)

\* ------------------------------------------------------------------------
\* Tag selection: MusicBrainzEntity._select_tags
\* ------------------------------------------------------------------------
\* The vote counts arrive as decimal strings and are compared as integers.
CountStrings == {"1", "3", "5", "10"}

int(str) == CASE str = "1" -> 1 [] str = "3" -> 3 [] str = "5" -> 5 [] str = "10" -> 10

\* The tags left in the order of the catalog.
unsorted_tags(tag_list) == tag_list

\* sorted(tag_list, key=int(count), reverse=True): stable, the tags of
\* equal count keep their order.
RECURSIVE sorted_tags(_)
sorted_tags(tag_list) ==
    IF tag_list = <<>> THEN <<>>
    ELSE LET top == CHOOSE i \in 1..Len(tag_list) :
                      /\ \A j \in 1..Len(tag_list) :
                            int(tag_list[i].count) >= int(tag_list[j].count)
                      /\ \A j \in 1..(i - 1) :
                            int(tag_list[j].count) # int(tag_list[i].count)
         IN  <<tag_list[top]>> \o
             sorted_tags([k \in 1..(Len(tag_list) - 1) |->
                             IF k < top THEN tag_list[k] ELSE tag_list[k + 1]])

\* The loop without the clause that keeps the tags tied with the last one.
RECURSIVE select_loop_no_ties(_, _, _, _)
select_loop_no_ties(rest, pruned_tags, current_vote_count, min_nb_tags) ==
    IF rest = <<>> THEN pruned_tags
    ELSE IF Len(pruned_tags) < min_nb_tags
    THEN select_loop_no_ties(Tail(rest), Append(pruned_tags, Head(rest).name),
                             <<int(Head(rest).count)>>, min_nb_tags)
    ELSE pruned_tags

\* The loop of lines 265-273; current_vote_count is <<>> for None and
\* <<n>> for the count n.
RECURSIVE select_loop(_, _, _, _)
select_loop(rest, pruned_tags, current_vote_count, min_nb_tags) ==
    IF rest = <<>> THEN pruned_tags
    ELSE LET tag_count == int(Head(rest).count)
         IN  IF \/ Len(pruned_tags) < min_nb_tags
                \/ current_vote_count = <<tag_count>>
             THEN select_loop(Tail(rest), Append(pruned_tags, Head(rest).name),
                              <<tag_count>>, min_nb_tags)
             ELSE pruned_tags

select_tags(tag_list, min_nb_tags) ==
    select_loop(sorted_tags(tag_list), <<>>, <<>>, min_nb_tags)

\* ------------------------------------------------------------------------
\* Track numbers: extract_recording_mbids_and_track_number
\* ------------------------------------------------------------------------
\* A string is a sequence of characters; the characters of a track number,
\* in the order of their code points.
Chars == <<".", "0", "1", "2", "3", "4", "5", "6", "7", "8", "9">>

Digit(n) == Chars[n + 2]

DigitValue(ch) == (CHOOSE i \in 1..Len(Chars) : Chars[i] = ch) - 2

\* str(n) for a natural number
RECURSIVE str(_)
str(n) == IF n < 10 THEN <<Digit(n)>> ELSE str(n \div 10) \o <<Digit(n % 10)>>

\* int(position) for a string of decimal digits (named int in the source)
RECURSIVE parse_int(_)
parse_int(digits) ==
    IF digits = <<>> THEN 0
    ELSE parse_int(SubSeq(digits, 1, Len(digits) - 1)) * 10
         + DigitValue(digits[Len(digits)])

\* A format that does not pad.
format_unpadded(n, width) == str(n)

\* f"{n:0{width}}": at least width characters, filled with zeros on the left
format_padded(n, width) ==
    IF Len(str(n)) >= width THEN str(n)
    ELSE [i \in 1..(width - Len(str(n))) |-> "0"] \o str(n)

\* A track number that leaves the medium out whatever the number of media.
track_number_no_medium(nb_media, medium_padding, track_padding, medium_position, track_position) ==
    format_padded(track_position, track_padding)

\* Lines 255-260
track_number(nb_media, medium_padding, track_padding, medium_position, track_position) ==
    IF nb_media = 1
    THEN format_padded(track_position, track_padding)
    ELSE format_padded(medium_position, medium_padding) \o <<".">> \o
         format_padded(track_position, track_padding)

\* Lines 245-262: the tracks of one medium
extract_medium(medium_list, medium) ==
    LET medium_padding == Len(str(Len(medium_list)))
        medium_position == parse_int(medium.position)
        track_padding == Len(str(Len(medium.track_list)))
    IN  [k \in 1..Len(medium.track_list) |->
           <<medium.track_list[k].recording,
             track_number(Len(medium_list), medium_padding, track_padding,
                          medium_position,
                          parse_int(medium.track_list[k].position))>>]

RECURSIVE extract_media(_, _)
extract_media(medium_list, k) ==
    IF k > Len(medium_list) THEN <<>>
    ELSE extract_medium(medium_list, medium_list[k]) \o
         extract_media(medium_list, k + 1)

extract_recording_mbids_and_track_number(release_data) ==
    extract_media(release_data.medium_list, 1)

\* ------------------------------------------------------------------------
\* Canonical releases: get_release_map_with_auto_update
\* ------------------------------------------------------------------------
\* The canonical data is a table of (release group, canonical release)
\* rows, here a function from the release groups it knows.
\* get_release_group_to_release_map keeps the rows whose release group is
\* in release_group_mbids and turns them into a dict.
get_release_group_to_release_map(release_group_mbids, canonical_release_df) ==
    [g \in Range(release_group_mbids) \cap DOMAIN canonical_release_df |->
        canonical_release_df[g]]

\* A lookup that raises when ids are still missing after the refresh.
get_release_map_missing_fatal(release_group_mbids, canonical_release_df, env) ==
    LET first == get_release_group_to_release_map(release_group_mbids,
                                                  canonical_release_df)
    IN  IF Len(release_group_mbids) - Cardinality(DOMAIN first) = 0
        THEN [result |-> first, refreshes |-> 0, log |-> {}, err |-> "none"]
        ELSE IF env.downloadFails
        THEN [result |-> <<>>, refreshes |-> 1, log |-> {"missing"},
              err |-> "DownloadError"]
        ELSE LET m == get_release_group_to_release_map(release_group_mbids,
                                                       env.updated)
             IN  IF Len(release_group_mbids) - Cardinality(DOMAIN m) # 0
                 THEN [result |-> <<>>, refreshes |-> 1,
                       log |-> {"missing", "still_missing"},
                       err |-> "RedirectResolutionError"]
                 ELSE [result |-> m, refreshes |-> 1,
                       log |-> {"missing", "updated"}, err |-> "none"]

\* Lines 264-307.  The number of missing ids is the length of the list of
\* requested ids minus the number of keys of the map; env.updated is the
\* canonical data that download_and_preprocess_canonical_data returns,
\* unless the download raises.
get_release_map_with_auto_update(release_group_mbids, canonical_release_df, env) ==
    LET first == get_release_group_to_release_map(release_group_mbids,
                                                  canonical_release_df)
    IN  IF Len(release_group_mbids) - Cardinality(DOMAIN first) = 0
        THEN [result |-> first, refreshes |-> 0, log |-> {}, err |-> "none"]
        ELSE IF env.downloadFails
        THEN [result |-> <<>>, refreshes |-> 1, log |-> {"missing"},
              err |-> "DownloadError"]
        ELSE LET m == get_release_group_to_release_map(release_group_mbids,
                                                       env.updated)
             IN  [result |-> m, refreshes |-> 1,
                  log |-> {"missing"} \cup
                          IF Len(release_group_mbids) - Cardinality(DOMAIN m) # 0
                          THEN {"still_missing"} ELSE {"updated"},
                  err |-> "none"]

\* ------------------------------------------------------------------------
\* Normalization of an artist and the scalar part of the field-sets
\* ------------------------------------------------------------------------
\* An optional value is <<>> for None and <<v>> for the value v.
None == <<>>

Some(v) == <<v>>

\* get_rating: int(rating_dict["rating"]) if rating_dict else None
get_rating(entity_data) ==
    IF "rating" \notin DOMAIN entity_data \/ DOMAIN entity_data["rating"] = {}
    THEN [ok |-> TRUE, value |-> None]
    ELSE IF "rating" \notin DOMAIN entity_data["rating"]
    THEN [ok |-> FALSE, value |-> None]
    ELSE [ok |-> TRUE, value |-> Some(parse_int(entity_data["rating"]["rating"]))]

\* get_start_year: int(life_span_dict["begin"]) if life_span_dict else None
get_start_year(entity_data) ==
    IF "life-span" \notin DOMAIN entity_data \/ DOMAIN entity_data["life-span"] = {}
    THEN [ok |-> TRUE, value |-> None]
    ELSE IF "begin" \notin DOMAIN entity_data["life-span"]
    THEN [ok |-> FALSE, value |-> None]
    ELSE [ok |-> TRUE, value |-> Some(parse_int(entity_data["life-span"]["begin"]))]

\* Artist.from_musicbrainz_data, lines 387-413: the subscripts
\* artist_data["type"] and life_span_dict["begin"] raise KeyError on a
\* missing key; the area is read with .get.
Artist_from_musicbrainz_data(artist_data) ==
    LET start_year == get_start_year(artist_data)
        rating == get_rating(artist_data)
        area == IF "area" \in DOMAIN artist_data /\ "name" \in DOMAIN artist_data["area"]
                THEN Some(artist_data["area"]["name"]) ELSE None
    IN  IF "type" \notin DOMAIN artist_data \/ ~start_year.ok \/ ~rating.ok
        THEN [ok |-> FALSE, entity |-> None]
        ELSE [ok |-> TRUE,
              entity |-> [kind |-> "artist", mbid |-> artist_data["id"],
                          name |-> artist_data["name"],
                          type |-> Some(artist_data["type"]), area |-> area,
                          start_year |-> start_year.value,
                          rating |-> rating.value,
                          artists |-> <<>>, releases |-> <<>>]]

\* format_number: {"number": value}, None included
format_number(value) == [number |-> value]

\* mb_url: BASE_MUSICBRAINZ_URL / entity_type / mbid
mb_url(e) == <<"musicbrainz.org", e.kind, e.mbid>>

\* The properties of to_page_properties that hold the name and the scalar
\* fields of the entity.
scalar_properties(e) ==
    IF e.kind = "artist"
    THEN [name |-> e.name,
          type |-> e.type,
          area |-> IF e.area = None THEN Some("Unknown") ELSE e.area,
          start_year |-> format_number(e.start_year),
          rating |-> format_number(e.rating),
          mb_url |-> mb_url(e)]
    ELSE IF e.kind = "release"
    THEN [name |-> e.name,
          first_release_year |-> format_number(e.first_release_year),
          rating |-> format_number(e.rating),
          mb_url |-> mb_url(e)]
    ELSE [name |-> e.name,
          length |-> format_number(e.length),
          rating |-> format_number(e.rating),
          mb_url |-> mb_url(e)]

\* The whole field-set of to_page_properties: the scalar properties and the
\* properties that hold the MBID and the relations.
page_properties(e, mbid_to_page_id_map) ==
    LET built == to_page_properties(e, mbid_to_page_id_map)
    IN  [ok |-> built.ok, props |-> scalar_properties(e) @@ built.props]

\* ------------------------------------------------------------------------
\* Browsing the release groups of an artist
\* ------------------------------------------------------------------------
\* str.lower() on the secondary types of the catalog
lower(secondary_type) ==
    CASE secondary_type = "Live" -> "live"
      [] secondary_type = "Compilation" -> "compilation"
      [] secondary_type = "Remix" -> "remix"

\* RELEASE_SECONDARY_TYPE_EXCLUDE
secondary_type_exclude == {"compilation", "live"}

\* musicbrainzngs.browse_release_groups(limit, offset): the release groups
\* of the artist from the offset on, limit at most.
browse_release_groups(catalog, limit, offset) ==
    SubSeq(catalog, offset + 1,
           IF offset + limit < Len(catalog) THEN offset + limit ELSE Len(catalog))

\* The release groups of a page with no excluded secondary type
filtered_release_groups(page_release_groups) ==
    SelectSeq(page_release_groups,
              LAMBDA release_group :
                 ~\E k \in 1..Len(release_group.secondary) :
                     lower(release_group.secondary[k]) \in secondary_type_exclude)

\* One iteration of the loop of musicbrainz_data_retrieval.py, lines
\* 164-195 (and of musicbrainz_processing.py, lines 101-127), followed by the
\* return when the loop condition nb_results >= browse_limit is false; a
\* WebServiceError returns None.
browse_iteration(r, fails) ==
    IF fails
    THEN [r EXCEPT !.requests = @ + 1, !.done = TRUE, !.failed = TRUE,
                   !.release_groups = <<>>]
    ELSE LET page_release_groups ==
                 browse_release_groups(r.catalog, r.browse_limit, r.offset)
         IN  [r EXCEPT !.requests = @ + 1,
                       !.fetched = @ \o page_release_groups,
                       !.short = Len(page_release_groups) < r.browse_limit,
                       !.release_groups =
                           @ \o filtered_release_groups(page_release_groups),
                       !.nb_results = Len(page_release_groups),
                       !.offset = @ + r.browse_limit,
                       !.done = ~(Len(page_release_groups) >= r.browse_limit)]

\* One iteration of the loop of main.py, lines 392-404: the condition is
\* len(page_release_groups) < browse_limit and the list is extended with
\* itself.
main_browse_iteration(r, fails) ==
    IF fails
    THEN [r EXCEPT !.requests = @ + 1, !.done = TRUE, !.failed = TRUE,
                   !.release_groups = <<>>]
    ELSE LET page_release_groups ==
                 browse_release_groups(r.catalog, r.browse_limit, r.offset)
         IN  [r EXCEPT !.requests = @ + 1,
                       !.fetched = @ \o page_release_groups,
                       !.short = Len(page_release_groups) < r.browse_limit,
                       !.release_groups = @ \o @,
                       !.nb_results = Len(page_release_groups),
                       !.offset = @ + r.browse_limit,
                       !.done = ~(Len(page_release_groups) < r.browse_limit)]

\* ------------------------------------------------------------------------
\* State
\* ------------------------------------------------------------------------
VARIABLES
    pages,      \* the workspace store: pages in allocation order
    map,        \* mbid_to_page_id_map
    last,       \* the last handler that ran: inputs, trace of calls, outcome
    created,    \* number of pages created for each MBID during the run
    run         \* the last orchestration or helper call: inputs, trace, result

vars == <<pages, map, last, created, run>>

MBIDs == ArtistMBIDs \cup ReleaseMBIDs \cup RecordingMBIDs

Page(db, mbid, artists) ==
    [db |-> db, archived |-> FALSE, name |-> "n0", mbid |-> mbid,
     artists |-> artists, releases |-> {}]

\* compute_mbid_to_page_id_map over the three databases: every page a query
\* returns contributes get_page_mbid(page) -> get_page_id(page).
compute_mbid_to_page_id_map(ps) ==
    LET live == {i \in 1..Len(ps) : ~ps[i].archived}
    IN  [m \in {ps[i].mbid : i \in live} |->
            get_page_id(CHOOSE i \in live : ps[i].mbid = m /\
                          \A j \in live : ps[j].mbid = m => j <= i)]

NoEntity == [kind |-> "none", mbid |-> "", artists |-> <<>>, releases |-> <<>>]

NoRun == [op |-> "none"]

NoCall ==
    [op |-> "none", ent |-> NoEntity, db |-> "", updated |-> {}, artists |-> {},
     calls |-> <<>>, log |-> {}, err |-> "none", fresh |-> FALSE, rep |-> FALSE]

\* The number of successful create requests for mbid in a trace.
Creates(calls, mbid) ==
    Cardinality({i \in 1..Len(calls) :
        calls[i].op = "create" /\ calls[i].on = mbid /\ calls[i].ok})

\* ------------------------------------------------------------------------
\* Synchronization: the workspaces a run can start from, the normalized
\* entities and the collaborators' behaviour
\* ------------------------------------------------------------------------
SyncStores ==
    { <<>>,
      << Page("artist", "a1", {}), Page("release", "r1", {"p1"}) >> }

Credits == { <<"a1">>, <<"a1", "a2">>, <<"a2", "a2">> }

Entities ==
    [kind : {"artist"}, mbid : ArtistMBIDs, artists : {<<>>}, releases : {<<>>}]
    \cup
    [kind : {"release"}, mbid : {"r1"}, artists : Credits, releases : {<<>>}]
    \cup
    [kind : {"recording"}, mbid : RecordingMBIDs, artists : Credits,
     releases : {<<"r1">>}]

Orders == { <<"a1", "a2">>, <<"a2", "a1">> }

\* The collaborators' behaviour during a synchronization of e.  Only the
\* artists that are fetched can fail or come without a type, the iteration
\* order matters for two missing artists or more, and a synchronization
\* issues at most two store requests per entity it writes.
SyncEnvs(e) ==
    LET missing == IF e.kind = "artist" THEN {} ELSE Range(e.artists) \ DOMAIN map
        requests == 2 * (1 + Cardinality(missing))
    IN  { env \in [pick : Orders, fetchFail : SUBSET missing,
                   noType : SUBSET missing, failAt : 0..MaxFailAt] :
            /\ env.fetchFail \cap env.noType = {}
            /\ env.failAt <= requests
            /\ Cardinality(missing) < 2 => env.pick = <<"a1", "a2">> }

\* One call of update_notion_page for the normalized entity e.
Sync(e, env) ==
    LET c == update_notion_page(Ctx(pages, map), e, env)
    IN  /\ Len(c.pages) <= MaxPages
        /\ pages' = c.pages
        /\ map' = c.map
        /\ created' = [m \in MBIDs |-> created[m] + Creates(c.calls, m)]
        /\ run' = run
        /\ last' = [op |-> "sync", ent |-> e, db |-> e.kind, updated |-> {},
                    artists |-> {}, calls |-> c.calls, log |-> c.log,
                    err |-> c.err,
                    fresh |-> \A i \in 1..Len(pages) : pages[i].mbid # e.mbid,
                    rep |-> last.op = "sync" /\ last.ent = e]

SyncStep == \E e \in Entities : \E env \in SyncEnvs(e) : Sync(e, env)

Init ==
    /\ pages \in SyncStores
    /\ map = compute_mbid_to_page_id_map(pages)
    /\ last = NoCall
    /\ created = [m \in MBIDs |-> 0]
    /\ run = NoRun

Next == SyncStep

Spec == Init /\ [][Next]_vars

\* ------------------------------------------------------------------------
\* Stale sweep: the workspaces a sweep can find and its inputs
\* ------------------------------------------------------------------------
SweepStores ==
    { << Page("artist", "a1", {}),
         Page("release", "r1", {"p1"}),
         Page("release", "r2", {"p1"}),
         Page("release", "r3", {"p1"}) >>,
      << Page("artist", "a1", {}),
         Page("artist", "a2", {}),
         Page("release", "r1", {"p1"}),
         Page("release", "r2", {"p2"}),
         Page("recording", "t1", {"p1", "p2"}) >> }

SweepEnvs == [pick : {<<>>}, fetchFail : {{}}, noType : {{}}, failAt : 0..MaxFailAt]

PageIdsOf(db) == {get_page_id(i) : i \in {j \in 1..Len(pages) : pages[j].db = db}}
MbidsOf(db) == {pages[i].mbid : i \in {j \in 1..Len(pages) : pages[j].db = db}}

\* One call of move_to_trash_outdated_entity_pages.
Sweep(db, updated, artist_page_ids, env) ==
    LET c == move_to_trash_outdated_entity_pages(Ctx(pages, map), db, updated,
                                                 artist_page_ids, env)
    IN  /\ pages' = c.pages
        /\ map' = c.map
        /\ created' = created
        /\ run' = run
        /\ last' = [op |-> "sweep", ent |-> NoEntity, db |-> db, updated |-> updated,
                    artists |-> artist_page_ids, calls |-> c.calls,
                    log |-> c.log, err |-> c.err, fresh |-> FALSE,
                    rep |-> /\ last.op = "sweep" /\ last.db = db
                            /\ last.updated = updated
                            /\ last.artists = artist_page_ids]

SweepStep ==
    \E db \in {"release", "recording"} :
    \E updated \in (SUBSET PageIdsOf(db)) \cup (SUBSET MbidsOf(db)) :
    \E artist_page_ids \in SUBSET PageIdsOf("artist") :
    \E env \in SweepEnvs :
        Sweep(db, updated, artist_page_ids, env)

SweepInit ==
    /\ pages \in SweepStores
    /\ map = compute_mbid_to_page_id_map(pages)
    /\ last = NoCall
    /\ created = [m \in MBIDs |-> 0]
    /\ run = NoRun

SweepNext == SweepStep

SweepSpec == SweepInit /\ [][SweepNext]_vars

\* ------------------------------------------------------------------------
\* The pass over the flagged artists: the workspaces it can find
\* ------------------------------------------------------------------------
PassStores ==
    { << Page("artist", "a1", {}), Page("artist", "a2", {}) >>,
      << Page("artist", "a1", {}), Page("artist", "a2", {}),
         Page("artist", NoMbid, {}) >>,
      << Page("artist", "a2", {}), Page("artist", "a1", {}),
         Page("artist", "a1", {}) >> }

PassEnvs ==
    [fetchFail : SUBSET ArtistMBIDs, noType : SUBSET ArtistMBIDs,
     failAt : 0..MaxFailAt]

\* One call of update_artists_from_notion.
Pass(env) ==
    LET c == update_artists_from_notion(PassCtx(pages, run.marked), env)
    IN  /\ pages' = c.pages
        /\ run' = [op |-> "pass", marked |-> c.marked, before |-> run.marked,
                   flagged |-> c.flagged, calls |-> c.calls, log |-> c.log,
                   err |-> c.err]
        /\ UNCHANGED <<map, last, created>>

PassStep == \E env \in PassEnvs : Pass(env)

PassInit ==
    /\ pages \in PassStores
    /\ map = compute_mbid_to_page_id_map(pages)
    /\ last = NoCall
    /\ created = [m \in MBIDs |-> 0]
    /\ \E marked \in SUBSET PageIdsOf("artist") :
          run = [op |-> "none", marked |-> marked, before |-> marked,
                 flagged |-> <<>>, calls |-> <<>>, log |-> {}, err |-> "none"]

PassNext == PassStep

PassSpec == PassInit /\ [][PassNext]_vars

\* ------------------------------------------------------------------------
\* A run: synchronizations and sweeps in any order
\* ------------------------------------------------------------------------
RunSync ==
    \E e \in {x \in Entities : x.kind # "recording"} :
    \E env \in SyncEnvs(e) :
        Sync(e, env)

RunSweep ==
    \E updated \in SUBSET PageIdsOf("release") :
    \E artist_page_ids \in SUBSET PageIdsOf("artist") :
    \E env \in {x \in SweepEnvs : x.failAt <= 1} :
        Sweep("release", updated, artist_page_ids, env)

RunNext == RunSync \/ RunSweep

RunSpec == Init /\ [][RunNext]_vars

\* ------------------------------------------------------------------------
\* Tag selection: the tag lists of the catalog and the minimum asked for
\* ------------------------------------------------------------------------
TagNames == {"A", "B", "C", "D"}

TagLists ==
    UNION { { t \in [1..n -> [name : TagNames, count : CountStrings]] :
                \A i, j \in 1..n : i # j => t[i].name # t[j].name }
            : n \in 0..MaxTags }

ApplyInit(calls) ==
    /\ pages = <<>>
    /\ map = compute_mbid_to_page_id_map(pages)
    /\ last = NoCall
    /\ created = [m \in MBIDs |-> 0]
    /\ run \in calls

ApplyVars == <<pages, map, last, created>>

TagInit ==
    ApplyInit([op : {"select_tags"}, tag_list : TagLists,
               min_nb_tags : 0..MaxMinTags, done : {FALSE}, result : {<<>>}])

SelectTags ==
    /\ run.op = "select_tags" /\ ~run.done
    /\ run' = [run EXCEPT !.done = TRUE,
                          !.result = select_tags(run.tag_list, run.min_nb_tags)]
    /\ UNCHANGED ApplyVars

TagNext == SelectTags

TagSpec == TagInit /\ [][TagNext]_vars

\* ------------------------------------------------------------------------
\* Track numbers: the releases of the catalog
\* ------------------------------------------------------------------------
\* The number of tracks of each medium of a release.
ReleaseShapes ==
    { <<2>>, <<11>>, <<11, 11>>, <<2, 11>>,
      <<1, 2, 1, 2, 1, 2, 1, 2, 1, 11>> }

\* The release data of the catalog: media positioned 1..M, the tracks of a
\* medium positioned 1..N, the positions given as decimal strings.
ReleaseData(shape) ==
    [medium_list |->
       [m \in 1..Len(shape) |->
          [position |-> str(m),
           track_list |-> [t \in 1..shape[m] |->
                             [position |-> str(t), recording |-> <<m, t>>]]]]]

TracksOf(shape) ==
    UNION { {<<m, t>> : t \in 1..shape[m]} : m \in 1..Len(shape) }

\* A release and two of its tracks
TrackCalls ==
    UNION { { [op |-> "track_numbers", shape |-> sh, a |-> a, b |-> b,
               done |-> FALSE, result |-> <<>>] :
              a \in TracksOf(sh), b \in TracksOf(sh) } : sh \in ReleaseShapes }

TrackInit == ApplyInit(TrackCalls)

ExtractTrackNumbers ==
    /\ run.op = "track_numbers" /\ ~run.done
    /\ run' = [run EXCEPT
                 !.done = TRUE,
                 !.result = extract_recording_mbids_and_track_number(
                                ReleaseData(run.shape))]
    /\ UNCHANGED ApplyVars

TrackNext == ExtractTrackNumbers

TrackSpec == TrackInit /\ [][TrackNext]_vars

\* ------------------------------------------------------------------------
\* Canonical releases: the requests and the canonical data
\* ------------------------------------------------------------------------
ReleaseGroupMBIDs == {"g1", "g2"}

\* The release groups accumulated over the artists of a pass; a release
\* group of two artists is accumulated twice.
GroupLists == UNION { [1..n -> ReleaseGroupMBIDs] : n \in 0..MaxGroups }

CanonicalData ==
    UNION { [known -> {"r1", "r2"}] : known \in SUBSET ReleaseGroupMBIDs }

RedirectInit ==
    ApplyInit([op : {"release_map"}, release_group_mbids : GroupLists,
               canonical_release_df : CanonicalData,
               updated : CanonicalData, downloadFails : BOOLEAN,
               done : {FALSE},
               out : {[result |-> <<>>, refreshes |-> 0, log |-> {},
                       err |-> "none"]}])

GetReleaseMap ==
    /\ run.op = "release_map" /\ ~run.done
    /\ run' = [run EXCEPT
                 !.done = TRUE,
                 !.out = get_release_map_with_auto_update(
                            run.release_group_mbids, run.canonical_release_df,
                            [updated |-> run.updated,
                             downloadFails |-> run.downloadFails])]
    /\ UNCHANGED ApplyVars

RedirectNext == GetReleaseMap

RedirectSpec == RedirectInit /\ [][RedirectNext]_vars

\* ------------------------------------------------------------------------
\* Normalization and field-sets: the raw data of the catalog and the
\* normalized entities
\* ------------------------------------------------------------------------
Ratings == {None, Some(0), Some(4)}

Years == {None, Some(0), Some(1990)}

\* An optional key of the raw data: missing, or present with one of values
Optional(key, values) == {<<>>} \cup {[k \in {key} |-> v] : v \in values}

RawArtists ==
    { (((base @@ type) @@ area) @@ span) @@ rating :
        base \in [id : ArtistMBIDs, name : {"X"}],
        type \in Optional("type", {"Person"}),
        area \in Optional("area", {[name |-> "France"]}),
        span \in Optional("life-span", {[begin |-> str(1990)],
                                        [ended |-> "false"]}),
        rating \in Optional("rating", {[rating |-> str(4)]}) }

NormalizedEntities ==
    [kind : {"artist"}, mbid : {"a1"}, name : {"X", ""},
     type : {Some("Person")}, area : {None, Some("France")},
     start_year : Years, rating : Ratings, artists : {<<>>}, releases : {<<>>}]
    \cup
    [kind : {"release"}, mbid : {"r1"}, name : {"X", ""},
     first_release_year : Years, rating : Ratings,
     artists : {<<>>}, releases : {<<>>}]
    \cup
    [kind : {"recording"}, mbid : {"t1"}, name : {"X", ""},
     length : Years, rating : Ratings, artists : {<<>>}, releases : {<<>>}]

EntityInit ==
    ApplyInit({ [op |-> "normalize", input |-> raw, done |-> FALSE,
                 out |-> None] : raw \in RawArtists }
              \cup
              { [op |-> "field_set", input |-> e, done |-> FALSE,
                 out |-> None] : e \in NormalizedEntities })

NormalizeArtist ==
    /\ run.op = "normalize" /\ ~run.done
    /\ run' = [run EXCEPT !.done = TRUE,
                          !.out = Artist_from_musicbrainz_data(run.input)]
    /\ UNCHANGED ApplyVars

BuildFieldSet ==
    /\ run.op = "field_set" /\ ~run.done
    /\ run' = [run EXCEPT !.done = TRUE,
                          !.out = page_properties(run.input, map)]
    /\ UNCHANGED ApplyVars

EntityNext == NormalizeArtist \/ BuildFieldSet

EntitySpec == EntityInit /\ [][EntityNext]_vars

\* ------------------------------------------------------------------------
\* Bulk reads: the artist databases that are scanned
\* ------------------------------------------------------------------------
ScanStores ==
    UNION { [1..n -> {Page("artist", m, {}) : m \in {"a1", "a2", "a3"}}]
            : n \in 0..(PageSize + 2) }

ScanInit ==
    /\ pages \in ScanStores
    /\ map = compute_mbid_to_page_id_map(pages)
    /\ last = NoCall
    /\ created = [m \in MBIDs |-> 0]
    /\ \E marked \in SUBSET PageIdsOf("artist") :
          run = [op |-> "none", marked |-> marked, done |-> FALSE,
                 calls |-> <<>>, err |-> "none", map |-> <<>>, to_update |-> <<>>]

ScanResult(op, c) ==
    [op |-> op, marked |-> run.marked, done |-> TRUE, calls |-> c.calls,
     err |-> c.err, map |-> c.map, to_update |-> c.to_update]

\* One call of compute_mbid_to_page_id_map on the artist database
ComputeMap ==
    /\ ~run.done
    /\ \E env \in [failAt : 0..2] :
          run' = ScanResult("compute_map",
                    compute_map_loop(ScanCtx(pages, run.marked), "artist", 1, env))
    /\ UNCHANGED ApplyVars

\* One call of fetch_artists_to_update
FetchArtistsToUpdate ==
    /\ ~run.done
    /\ \E env \in [failAt : 0..2] :
          run' = ScanResult("fetch_artists",
                    fetch_artists_to_update(ScanCtx(pages, run.marked), env))
    /\ UNCHANGED ApplyVars

\* One call of query_notion_for_updates (main.py); the MBIDs are read from
\* the pages it returns.
QueryNotionForUpdates ==
    /\ ~run.done
    /\ \E env \in [failAt : 0..2] :
          LET c == query_notion_for_updates(PassCtx(pages, run.marked), env)
          IN  run' = ScanResult("query_updates",
                        [calls |-> c.calls, err |-> c.err, map |-> <<>>,
                         to_update |-> [k \in 1..Len(c.flagged) |->
                                           pages[c.flagged[k]].mbid]])
    /\ UNCHANGED ApplyVars

ScanNext == ComputeMap \/ FetchArtistsToUpdate \/ QueryNotionForUpdates

ScanSpec == ScanInit /\ [][ScanNext]_vars

\* ------------------------------------------------------------------------
\* Browsing: the release groups of the artists of the catalog
\* ------------------------------------------------------------------------
Catalogs ==
    UNION { { [i \in 1..n |-> [id |-> i, secondary |-> t[i]]] :
                t \in [1..n -> {<<>>, <<"Live">>, <<"Remix">>,
                                  <<"Remix", "Compilation">>}] } : n \in 0..MaxCatalog }

\* The locals of browse_release_groups_by_artist before the loop; requests,
\* fetched and short record the requests sent, the release groups received
\* and whether the last page received was a short one.
BrowseCall(version, catalog, browse_limit) ==
    [op |-> "browse", version |-> version, catalog |-> catalog,
     browse_limit |-> browse_limit, offset |-> 0, release_groups |-> <<>>,
     nb_results |-> IF version = "main" THEN 0 ELSE browse_limit,
     requests |-> 0, fetched |-> <<>>, short |-> FALSE,
     done |-> FALSE, failed |-> FALSE]

BrowseInit ==
    ApplyInit({ BrowseCall(version, catalog, browse_limit) :
                  version \in {"retrieval", "processing", "main"},
                  catalog \in Catalogs,
                  browse_limit \in 1..MaxBrowseLimit })

\* musicbrainz_data_retrieval.py
BrowsePage ==
    /\ run.version = "retrieval" /\ ~run.done
    /\ run.nb_results >= run.browse_limit
    /\ \E fails \in BOOLEAN : run' = browse_iteration(run, fails)
    /\ UNCHANGED ApplyVars

\* musicbrainz_processing.py
BrowsePageProcessing ==
    /\ run.version = "processing" /\ ~run.done
    /\ run.nb_results >= run.browse_limit
    /\ \E fails \in BOOLEAN : run' = browse_iteration(run, fails)
    /\ UNCHANGED ApplyVars

\* main.py; the requests of a loop that does not end are cut at MaxRequests
BrowsePageMain ==
    /\ run.version = "main" /\ ~run.done
    /\ run.nb_results < run.browse_limit
    /\ run.requests < MaxRequests
    /\ \E fails \in BOOLEAN : run' = main_browse_iteration(run, fails)
    /\ UNCHANGED ApplyVars

BrowseNext == BrowsePage \/ BrowsePageProcessing \/ BrowsePageMain

BrowseSpec == BrowseInit /\ [][BrowseNext]_vars /\ WF_vars(BrowseNext)

TypeOK ==
    /\ \A i \in 1..Len(pages) : pages[i].db \in EntityType
    /\ DOMAIN map \subseteq MBIDs
    /\ \A m \in DOMAIN map : \E i \in 1..Len(pages) : map[m] = get_page_id(i)

\* ------------------------------------------------------------------------
\* Reading a trace
\* ------------------------------------------------------------------------
\* A store request of the trace failed.
StoreFailed(calls) ==
    \E i \in 1..Len(calls) : calls[i].op \in StoreOps /\ ~calls[i].ok

\* No request of the trace failed, catalog requests included.
Undisturbed(l) ==
    /\ l.err = "none"
    /\ \A i \in 1..Len(l.calls) : l.calls[i].op \in StoreOps \cup {"fetch"} => l.calls[i].ok

Count(calls, op) == Cardinality({i \in 1..Len(calls) : calls[i].op = op})

CountOn(calls, op, on) ==
    Cardinality({i \in 1..Len(calls) : calls[i].op = op /\ calls[i].on = on})

\* The entity's own query was issued: the materialization returned normally.
OwnQueryIssued(l) ==
    \E i \in 1..Len(l.calls) : l.calls[i].op = "query" /\ l.calls[i].on = l.ent.mbid

\* ------------------------------------------------------------------------
\* C1  Idempotence of synchronization: two calls of update_notion_page in
\* a row for the same entity, from a store with no record for its MBID and
\* with no request failing, issue one create (first call) and then one
\* update and no create (second call).
\* ------------------------------------------------------------------------
C1_Idempotence ==
    [][ ( /\ last.op = "sync" /\ last.fresh /\ Undisturbed(last)
          /\ last'.op = "sync" /\ last'.rep /\ last'.ent = last.ent
          /\ Undisturbed(last') )
        => ( /\ CountOn(last.calls, "create", last.ent.mbid) = 1
             /\ Count(last'.calls, "create") = 0
             /\ Count(last'.calls, "update") = 1 ) ]_vars

\* ------------------------------------------------------------------------
\* C2  Create-versus-update decision: a call that returns normally for an
\* entity whose MBID is not in the map issues one create and no update and
\* maps the MBID to the new page; for a mapped MBID it issues one update,
\* on the mapped page id, and no create.
\* ------------------------------------------------------------------------
C2_CreateVersusUpdate ==
    [][ ( last'.op = "sync" /\ last'.err = "none" )
        => LET m == last'.ent.mbid
           IN  IF m \notin DOMAIN map
               THEN /\ CountOn(last'.calls, "create", m) = 1
                    /\ Count(last'.calls, "update") = 0
                    /\ Len(pages') > Len(pages)
                    /\ m \in DOMAIN map'
                    /\ map'[m] = get_page_id(Len(pages'))
               ELSE /\ CountOn(last'.calls, "create", m) = 0
                    /\ CountOn(last'.calls, "update", map[m]) = 1 ]_vars

\* ------------------------------------------------------------------------
\* C3  A record handle is created once per entity: at most one page is
\* created per MBID during a run, and the page id a MBID is mapped to never
\* changes while that page is not archived.
\* ------------------------------------------------------------------------
PageIndex(id) == CHOOSE i \in 1..Len(PageIds) : PageIds[i] = id

C3_CreatedOncePerEntity ==
    [][ /\ \A m \in MBIDs : created'[m] <= 1
        /\ \A m \in DOMAIN map :
              ~pages[PageIndex(map[m])].archived
                 => (m \in DOMAIN map' /\ map'[m] = map[m]) ]_vars

\* ------------------------------------------------------------------------
\* C8  Unresolved relations never block a write: when a credited artist of
\* a release or recording is not in the map when the field-set is built,
\* the field-set is still built, the artist relation holds the page ids of
\* the credited artists that are in the map, and the write is issued.
\* ------------------------------------------------------------------------
C8_UnresolvedNeverBlocks ==
    ( /\ last.op = "sync" /\ last.ent.kind # "artist"
      /\ ~StoreFailed(last.calls)
      /\ CountOn(last.calls, "props", last.ent.mbid) = 1
      /\ ~(Range(last.ent.artists) \subseteq DOMAIN map) )
    => ( /\ last.err = "none"
         /\ Count(last.calls, "create") + Count(last.calls, "update") >= 1
         /\ \E i \in 1..Len(pages) :
               /\ pages[i].db = last.ent.kind /\ pages[i].mbid = last.ent.mbid
               /\ pages[i].artists =
                     {map[m] : m \in Range(last.ent.artists) \cap DOMAIN map} )

\* ------------------------------------------------------------------------
\* C9  Failure atomicity (as claimed): when a store request of a
\* synchronization call fails, the error propagates and the store and the
\* map are the same as before the call.
\* ------------------------------------------------------------------------
C9_FailureAtomicity ==
    [][ ( last'.op = "sync" /\ StoreFailed(last'.calls) )
        => ( last'.err = "StoreError" /\ pages' = pages /\ map' = map ) ]_vars

\* C9 (amended)  When a store request of a synchronization call fails, the
\* error propagates, no request follows the failed one, the entity's own
\* page is neither created nor modified and its own map entry is unchanged;
\* the store and the map are the same as before the call when no credited
\* artist was missing from the map, and otherwise differ only by the pages
\* and map entries of the credited artists materialized before the failure.
C9_FailureKeepsOwnRecord ==
    [][ ( last'.op = "sync" /\ StoreFailed(last'.calls) )
        => LET e == last'.ent
               n == Len(last'.calls)
           IN  /\ last'.err = "StoreError"
               /\ last'.calls[n].op \in StoreOps /\ ~last'.calls[n].ok
               /\ Len(pages') >= Len(pages)
               /\ \A i \in 1..Len(pages) : pages'[i] = pages[i]
               /\ \A i \in (Len(pages) + 1)..Len(pages') :
                     e.kind # "artist" /\ pages'[i].db = "artist"
               /\ \A m \in DOMAIN map : m \in DOMAIN map' /\ map'[m] = map[m]
               /\ (DOMAIN map') \ (DOMAIN map) \subseteq
                     IF e.kind = "artist" THEN {} ELSE Range(e.artists)
               /\ (e.kind = "artist" \/ Range(e.artists) \subseteq DOMAIN map)
                     => (pages' = pages /\ map' = map) ]_vars

\* A store request issued for the entity itself failed after a credited
\* artist had been materialized in the same call.
C9_Witness ==
    /\ last.op = "sync" /\ last.err = "StoreError"
    /\ last.ent.kind # "artist"
    /\ Count(last.calls, "create") >= 1
    /\ \E i \in 1..Len(last.calls) :
          /\ ~last.calls[i].ok
          /\ \/ last.calls[i].op = "query" /\ last.calls[i].on = last.ent.mbid
             \/ last.calls[i].op = "create" /\ last.calls[i].on = last.ent.mbid
             \/ last.calls[i].op = "update"

\* ------------------------------------------------------------------------
\* C10  Relation completeness: when the materialization of the missing
\* artists returns normally, every credited artist is a key of the map or
\* has a logged fetch failure.
\* ------------------------------------------------------------------------
C10_RelationCompleteness ==
    ( last.op = "sync" /\ last.ent.kind # "artist" /\ OwnQueryIssued(last) )
    => \A m \in Range(last.ent.artists) :
          m \in DOMAIN map \/ <<"fetch_error", m>> \in last.log

\* The materialization returned after creating one artist and failing to
\* fetch another.
C10_Witness ==
    /\ last.op = "sync" /\ last.ent.kind # "artist" /\ OwnQueryIssued(last)
    /\ \E m \in Range(last.ent.artists) :
          <<"fetch_error", m>> \in last.log /\ m \notin DOMAIN map
    /\ \E m \in Range(last.ent.artists) :
          CountOn(last.calls, "create", m) = 1 /\ m \in DOMAIN map

\* ------------------------------------------------------------------------
\* C4  Stale sweep with no artists: a sweep called with an empty set of
\* artist page ids issues no query and no archive request.
\* ------------------------------------------------------------------------
C4_EmptyArtistsNoRequest ==
    (last.op = "sweep" /\ last.artists = {}) => last.calls = <<>>

\* A sweep ran with no artists over a database holding a live page that is
\* not in the updated set, by page id or by MBID.
C4_Witness ==
    /\ last.op = "sweep" /\ last.artists = {}
    /\ \E i \in 1..Len(pages) :
          /\ pages[i].db = last.db /\ ~pages[i].archived
          /\ get_page_id(i) \notin last.updated
          /\ pages[i].mbid \notin last.updated

\* ------------------------------------------------------------------------
\* C5  Stale sweep decision: with a non-empty set of artists and no store
\* request failing, a live page of the database is archived by the sweep
\* if and only if its artist relation contains one of the artists and its
\* external id is not in updated_ids.
\* ------------------------------------------------------------------------
Stale(page, db, updated, artist_page_ids) ==
    /\ page.db = db /\ ~page.archived
    /\ page.artists \cap artist_page_ids # {}
    /\ page.mbid \notin updated

C5_SweepDecision ==
    [][ ( last'.op = "sweep" /\ last'.artists # {} /\ ~StoreFailed(last'.calls) )
        => \A i \in 1..Len(pages) :
              ~pages[i].archived =>
                 ( pages'[i].archived
                     <=> Stale(pages[i], last'.db, last'.updated, last'.artists) ) ]_vars

\* ------------------------------------------------------------------------
\* C6  Archive-request count: a sweep with no store request failing issues
\* one archive request for each stale page and none for any other page.
\* ------------------------------------------------------------------------
C6_OneArchivePerStale ==
    [][ ( last'.op = "sweep" /\ ~StoreFailed(last'.calls) )
        => \A i \in 1..Len(pages) :
              CountOn(last'.calls, "archive", get_page_id(i)) =
                 IF Stale(pages[i], last'.db, last'.updated, last'.artists)
                 THEN 1 ELSE 0 ]_vars

\* ------------------------------------------------------------------------
\* C7  The sweep is idempotent: a second sweep with the same inputs, no
\* store request failing in either call, leaves the store as the first
\* call left it and completes without error.
\* ------------------------------------------------------------------------
C7_SweepIdempotent ==
    [][ ( /\ last.op = "sweep" /\ ~StoreFailed(last.calls)
          /\ last'.op = "sweep" /\ last'.rep /\ ~StoreFailed(last'.calls)
          /\ last'.db = last.db /\ last'.updated = last.updated
          /\ last'.artists = last.artists )
        => ( pages' = pages /\ last'.err = "none" ) ]_vars

\* ------------------------------------------------------------------------
\* C11  Per-entity failures never abort the pass: in a pass over the
\* flagged artists, a fetch, normalization or store failure met while one
\* artist is synchronized is logged and every artist the query returned is
\* still processed (its catalog fetch is issued).
\* ------------------------------------------------------------------------
Reached(r, i) ==
    \E k \in 1..Len(r.calls) :
        r.calls[k].op = "fetch" /\ r.calls[k].on = pages[i].mbid

C11_FailuresNeverAbort ==
    ( run.op = "pass" /\ run.calls[1].ok )
    => \A k \in 1..Len(run.flagged) :
          pages[run.flagged[k]].mbid # NoMbid => Reached(run, run.flagged[k])

\* ------------------------------------------------------------------------
\* C12  Bulk query failures are pass-fatal: when the query for the artists
\* flagged for update fails, the failure propagates out of the pass; an
\* empty list of artists is not handed on as if the scan had succeeded.
\* ------------------------------------------------------------------------
C12_BulkQueryFatal ==
    ( run.op = "pass" /\ ~run.calls[1].ok ) => run.err # "none"

\* ------------------------------------------------------------------------
\* C13  Identifier Map invariant: an MBID is a key of the map if and only
\* if a record carrying that MBID is known to exist in the store, and the
\* mapped value is the id of that record.
\* ------------------------------------------------------------------------
C13_MapInvariant ==
    /\ \A m \in DOMAIN map :
          \E i \in 1..Len(pages) : get_page_id(i) = map[m] /\ pages[i].mbid = m
    /\ \A i \in 1..Len(pages) :
          pages[i].mbid # NoMbid => pages[i].mbid \in DOMAIN map

\* ------------------------------------------------------------------------
\* C14  The Identifier Map grows monotonically: no synchronization,
\* materialization or sweep removes a key of the map, not even the key of
\* a record that the sweep archives.
\* ------------------------------------------------------------------------
C14_MapMonotonic ==
    [][ DOMAIN map \subseteq DOMAIN map' ]_vars

\* A sweep archived the record an MBID is mapped to, after a
\* synchronization had added a key to the map.
C14_Witness ==
    /\ last.op = "sweep"
    /\ Count(last.calls, "archive") >= 1
    /\ \E m \in DOMAIN map : pages[PageIndex(map[m])].archived
    /\ \E m \in MBIDs : created[m] >= 1 /\ m \in DOMAIN map

\* ------------------------------------------------------------------------
\* C15  Tag selection bounds: the number of selected tags is at least
\* min(min_tags, length of the list); the vote count of every selected tag
\* is at least the vote count of every tag that is not selected; every tag
\* whose vote count equals that of the last selected tag is selected.
\* ------------------------------------------------------------------------
C15_TagSelectionBounds ==
    ( run.op = "select_tags" /\ run.done )
    => LET tags == Range(run.tag_list)
           sel == {t \in tags : t.name \in Range(run.result)}
           n == Len(run.result)
       IN  /\ n >= IF run.min_nb_tags < Len(run.tag_list)
                   THEN run.min_nb_tags ELSE Len(run.tag_list)
           /\ Cardinality(sel) = n
           /\ \A t \in sel : \A u \in tags \ sel : int(t.count) >= int(u.count)
           /\ n > 0 =>
                \A u \in tags :
                   ( \E t \in sel : t.name = run.result[n] /\ t.count = u.count )
                      => u \in sel

\* More tags than the minimum were selected because of a tie, and a tag of
\* a lower count was left out.
C15_Witness ==
    /\ run.op = "select_tags" /\ run.done
    /\ run.min_nb_tags >= 1
    /\ Len(run.result) > run.min_nb_tags
    /\ Len(run.result) < Len(run.tag_list)
    /\ \E i, j \in 1..Len(run.tag_list) :
          i < j /\ int(run.tag_list[i].count) < int(run.tag_list[j].count)

\* ------------------------------------------------------------------------
\* C16  Track number format: with one medium the track number is the track
\* position alone, zero-padded to the digit width of the track count (one
\* medium of 2 tracks: "1" and "2"); with several media it is
\* <medium>.<track>, the medium position zero-padded to the digit width of
\* the media count and the track position to the digit width of the track
\* count of its medium (2 media of 11 tracks: track 2 of medium 1 is "1.02").
\* ------------------------------------------------------------------------
\* The track number extracted for the track pos = <<medium, track>>.
TrackNumberOf(r, pos) ==
    LET k == CHOOSE i \in 1..Len(r.result) : r.result[i][1] = pos
    IN  r.result[k][2]

Width(n) == IF n < 10 THEN 1 ELSE IF n < 100 THEN 2 ELSE 3

Dots(tn) == {i \in 1..Len(tn) : tn[i] = "."}

C16_TrackNumberFormat ==
    ( run.op = "track_numbers" /\ run.done )
    => LET tn == TrackNumberOf(run, run.a)
           nb_media == Len(run.shape)
           nb_tracks == run.shape[run.a[1]]
       IN  /\ Len(run.result) = Cardinality(TracksOf(run.shape))
           /\ IF nb_media = 1
              THEN /\ Dots(tn) = {}
                   /\ Len(tn) = Width(nb_tracks)
                   /\ parse_int(tn) = run.a[2]
              ELSE /\ Dots(tn) = {Width(nb_media) + 1}
                   /\ Len(tn) = Width(nb_media) + 1 + Width(nb_tracks)
                   /\ parse_int(SubSeq(tn, 1, Width(nb_media))) = run.a[1]
                   /\ parse_int(SubSeq(tn, Width(nb_media) + 2, Len(tn))) = run.a[2]
           /\ (run.shape = <<2>> /\ run.a = <<1, 2>>) => tn = <<"2">>
           /\ (run.shape = <<11, 11>> /\ run.a = <<1, 2>>)
                 => tn = <<"1", ".", "0", "2">>

\* Track 2 of medium 1 of a release of 2 media of 11 tracks was formatted.
C16_Witness ==
    /\ run.op = "track_numbers" /\ run.done
    /\ run.shape = <<11, 11>> /\ run.a = <<1, 2>>
    /\ TrackNumberOf(run, run.a) = <<"1", ".", "0", "2">>

\* ------------------------------------------------------------------------
\* C17  Track numbers are lexicographically sortable: for media positioned
\* 1..M and tracks positioned 1..N inside each medium, the string order of
\* the track numbers of two tracks of a release is the order of their
\* (medium position, track position) pairs.
\* ------------------------------------------------------------------------
CharRank(ch) == CHOOSE i \in 1..Len(Chars) : Chars[i] = ch

\* s < t in the order of strings
RECURSIVE StrLess(_, _)
StrLess(s, t) ==
    IF t = <<>> THEN FALSE
    ELSE IF s = <<>> THEN TRUE
    ELSE IF Head(s) # Head(t) THEN CharRank(Head(s)) < CharRank(Head(t))
    ELSE StrLess(Tail(s), Tail(t))

PairLess(a, b) == a[1] < b[1] \/ (a[1] = b[1] /\ a[2] < b[2])

C17_TrackNumbersSortable ==
    ( run.op = "track_numbers" /\ run.done )
    => ( StrLess(TrackNumberOf(run, run.a), TrackNumberOf(run, run.b))
           <=> PairLess(run.a, run.b) )

\* Track 10 of a medium and track 1 of the next medium, whose track count
\* has fewer digits, were compared.
C17_Witness ==
    /\ run.op = "track_numbers" /\ run.done
    /\ Len(run.shape) >= 10
    /\ run.a = <<10, 10>> /\ run.b = <<9, 1>>
    /\ StrLess(TrackNumberOf(run, run.b), TrackNumberOf(run, run.a))

\* ------------------------------------------------------------------------
\* C18  Redirect refresh happens once and only on a miss: the canonical
\* data is refreshed exactly once when a requested release group has no
\* mapping in the current data, and not at all when every requested
\* release group is mapped.
\* ------------------------------------------------------------------------
C18_RefreshOnceOnMiss ==
    ( run.op = "release_map" /\ run.done )
    => run.out.refreshes =
          IF Range(run.release_group_mbids) \subseteq DOMAIN run.canonical_release_df
          THEN 0 ELSE 1

\* ------------------------------------------------------------------------
\* C19  Release groups still unmapped after the refresh are skipped, not
\* fatal: the call logs an error and returns normally the map of the
\* requested release groups that the refreshed data maps.
\* ------------------------------------------------------------------------
C19_StillMissingSkipped ==
    ( /\ run.op = "release_map" /\ run.done
      /\ run.out.refreshes = 1 /\ ~run.downloadFails
      /\ ~(Range(run.release_group_mbids) \subseteq DOMAIN run.updated) )
    => /\ run.out.err = "none"
       /\ "still_missing" \in run.out.log
       /\ DOMAIN run.out.result =
             Range(run.release_group_mbids) \cap DOMAIN run.updated
       /\ \A g \in DOMAIN run.out.result : run.out.result[g] = run.updated[g]

\* A release group was mapped by the refresh and another one was not.
C19_Witness ==
    /\ run.op = "release_map" /\ run.done
    /\ run.out.refreshes = 1 /\ run.out.err = "none"
    /\ \E g \in Range(run.release_group_mbids) :
          g \notin DOMAIN run.canonical_release_df /\ g \in DOMAIN run.out.result
    /\ \E g \in Range(run.release_group_mbids) : g \notin DOMAIN run.out.result

\* ------------------------------------------------------------------------
\* C20  The "needs update" marker is cleared only after the stale sweep:
\* in a pass, no request that clears the marker of an artist is issued
\* before the archive pass of the stale sweep has queried the store, and
\* no artist is fetched or written once the marker of one has been cleared.
\* ------------------------------------------------------------------------
\* The k-th call of the pass cleared the "To update" checkbox of a page.
ClearsMarker(r, k) ==
    r.calls[k].op = "update" /\ r.calls[k].ok

SweepCall(r, j) ==
    r.calls[j].op \in {"sweep", "archive"}

C20_MarkerClearedAfterSweep ==
    run.op = "pass"
    => \A k \in 1..Len(run.calls) :
          ClearsMarker(run, k)
             => /\ \E j \in 1..(k - 1) : SweepCall(run, j)
                /\ \A j \in (k + 1)..Len(run.calls) : run.calls[j].op # "fetch"

\* ------------------------------------------------------------------------
\* C21  Marker clearing covers every processed artist: when a pass ends
\* without error, the "needs update" marker is cleared on every flagged
\* artist that the pass fetched and synchronized, so that the following
\* pass does not find it again.
\* ------------------------------------------------------------------------
Synchronized(r, i) ==
    \E k \in 1..Len(r.calls) :
        /\ r.calls[k].op \in {"update", "create"}
        /\ r.calls[k].on = pages[i].mbid /\ r.calls[k].ok

C21_MarkerClearedOnProcessed ==
    ( run.op = "pass" /\ run.err = "none" )
    => \A k \in 1..Len(run.flagged) :
          Synchronized(run, run.flagged[k])
             => get_page_id(run.flagged[k]) \notin run.marked

\* ------------------------------------------------------------------------
\* C22  Field-set round trip: the field-set of an Artist, a Release or a
\* Recording holds the id and the name of the entity and each numeric field
\* with the value of the entity, an absent value staying absent.
\* ------------------------------------------------------------------------
C22_FieldSetRoundTrip ==
    ( run.op = "field_set" /\ run.done )
    => LET e == run.input
           props == run.out.props
       IN  /\ run.out.ok
           /\ "mbid" \in DOMAIN props /\ props.mbid = e.mbid
           /\ props.name = e.name
           /\ props.rating.number = e.rating
           /\ e.kind = "artist" => props.start_year.number = e.start_year
           /\ e.kind = "release"
                 => props.first_release_year.number = e.first_release_year
           /\ e.kind = "recording" => props.length.number = e.length

\* ------------------------------------------------------------------------
\* C23  Absence is preserved by normalization: for raw artist data that
\* carries the id and the name, normalization succeeds whichever of type,
\* area, life span and rating are missing, and a missing field is None in
\* the normalized artist.
\* ------------------------------------------------------------------------
C23_AbsencePreserved ==
    ( run.op = "normalize" /\ run.done )
    => LET raw == run.input
       IN  /\ run.out.ok
           /\ "type" \notin DOMAIN raw => run.out.entity.type = None
           /\ "area" \notin DOMAIN raw => run.out.entity.area = None
           /\ ( "life-span" \notin DOMAIN raw \/ "begin" \notin DOMAIN raw["life-span"] )
                 => run.out.entity.start_year = None
           /\ "rating" \notin DOMAIN raw => run.out.entity.rating = None

\* ------------------------------------------------------------------------
\* C24  Tag selection equals its reference definition: the result lists, in
\* descending vote-count order with tags of equal count in their input
\* order, exactly the tags whose vote count is at least the vote count of
\* the min_tags-th tag in that order when 1 <= min_tags <= length; it is the
\* whole list when min_tags exceeds the length and it is empty when the list
\* is empty or min_tags is 0.  [(A,5),(B,5),(C,3),(D,1)] gives [A,B] for
\* min_tags = 1 and [A,B,C] for min_tags = 3.
\* ------------------------------------------------------------------------
ExampleTags ==
    <<[name |-> "A", count |-> "5"], [name |-> "B", count |-> "5"],
      [name |-> "C", count |-> "3"], [name |-> "D", count |-> "1"]>>

\* The tags whose vote count is at least the vote count of the
\* min_tags-th tag in descending order of the vote counts
ReferenceTags(tag_list, min_tags) ==
    LET tags == Range(tag_list)
        Threshold(k) ==
            CHOOSE c \in {int(t.count) : t \in tags} :
                /\ Cardinality({t \in tags : int(t.count) > c}) < k
                /\ Cardinality({t \in tags : int(t.count) >= c}) >= k
    IN  IF tag_list = <<>> \/ min_tags = 0 THEN {}
        ELSE IF min_tags > Len(tag_list) THEN tags
        ELSE {t \in tags : int(t.count) >= Threshold(min_tags)}

C24_TagSelectionReference ==
    ( run.op = "select_tags" /\ run.done )
    => LET res == run.result
           pos(i) == CHOOSE k \in 1..Len(run.tag_list) :
                                run.tag_list[k].name = res[i]
           cnt(i) == int(run.tag_list[pos(i)].count)
       IN  /\ Range(res) = {t.name : t \in ReferenceTags(run.tag_list, run.min_nb_tags)}
           /\ Len(res) = Cardinality(ReferenceTags(run.tag_list, run.min_nb_tags))
           /\ \A i, j \in 1..Len(res) :
                 i < j => \/ cnt(i) > cnt(j)
                          \/ cnt(i) = cnt(j) /\ pos(i) < pos(j)
           /\ ( run.tag_list = ExampleTags /\ run.min_nb_tags = 1 )
                 => res = <<"A", "B">>
           /\ ( run.tag_list = ExampleTags /\ run.min_nb_tags = 3 )
                 => res = <<"A", "B", "C">>

\* The tie at the cutoff of the example was selected whole, and a list out
\* of order was selected from.
C24_Witness ==
    /\ run.op = "select_tags" /\ run.done
    /\ \/ run.tag_list = ExampleTags /\ run.min_nb_tags = 1
          /\ run.result = <<"A", "B">>
       \/ /\ run.min_nb_tags = 2 /\ Len(run.result) = 3
          /\ Len(run.tag_list) = 4
          /\ int(run.tag_list[1].count) < int(run.tag_list[4].count)

\* ------------------------------------------------------------------------
\* C25  Materialization precedes the field-set: within one synchronization
\* of a release or a recording, every fetch and every store request for its
\* missing credited artists comes before the entity's own field-set is
\* built and before its own create or update is issued, and the artist
\* relation of that write holds the record id of each artist created in the
\* same call.
\* ------------------------------------------------------------------------
\* The event i of the trace belongs to the entity e itself.
OwnEvent(calls, e, i) ==
    \/ calls[i].op \in {"props", "create", "query"} /\ calls[i].on = e.mbid
    \/ calls[i].op = "update" /\ calls[i - 1] = Call("props", e.mbid, TRUE)

\* The page written by the last event of the trace
WrittenPage(ps, calls) ==
    IF calls[Len(calls)].op = "create" THEN Len(ps)
    ELSE CHOOSE i \in 1..Len(ps) : get_page_id(i) = calls[Len(calls)].on

C25_MaterializationFirst ==
    [][ ( last'.op = "sync" /\ last'.ent.kind # "artist" )
        => LET e == last'.ent
               calls == last'.calls
               n == Len(calls)
           IN  /\ \A i, j \in 1..n :
                     ( /\ ~OwnEvent(calls, e, i)
                       /\ OwnEvent(calls, e, j)
                       /\ calls[j].op \in {"props", "create", "update"} )
                        => i < j
               /\ ( /\ last'.err = "none"
                    /\ calls[n].op \in {"create", "update"}
                    /\ OwnEvent(calls, e, n) )
                     => \A i \in (Len(pages) + 1)..Len(pages') :
                           pages'[i].db = "artist"
                              => get_page_id(i) \in
                                    pages'[WrittenPage(pages', calls)].artists ]_vars

\* Two credited artists were created and the entity was written in the
\* same call.
C25_Witness ==
    /\ last.op = "sync" /\ last.ent.kind # "artist" /\ last.err = "none"
    /\ Count(last.calls, "create") + Count(last.calls, "update") = 3
    /\ \A m \in {"a1", "a2"} : CountOn(last.calls, "create", m) = 1
    /\ \E i \in 1..Len(pages) :
          /\ pages[i].db = last.ent.kind /\ pages[i].mbid = last.ent.mbid
          /\ Cardinality(pages[i].artists) = 2

\* ------------------------------------------------------------------------
\* C26  The stale sweep traverses all pages: when the records that match
\* the artist filter span several result pages and no store request fails,
\* the sweep returns normally and every matching record, on any result
\* page, whose id is not in updated_ids has been archived.
\* ------------------------------------------------------------------------
C26_SweepTraversesAllPages ==
    [][ LET matching == {i \in 1..Len(pages) :
                           /\ pages[i].db = last'.db /\ ~pages[i].archived
                           /\ pages[i].artists \cap last'.artists # {}}
        IN  ( /\ last'.op = "sweep" /\ last'.artists # {}
              /\ ~StoreFailed(last'.calls)
              /\ Cardinality(matching) > PageSize )
            => /\ last'.err = "none"
               /\ \A i \in matching :
                     ( /\ get_page_id(i) \notin last'.updated
                       /\ pages[i].mbid \notin last'.updated )
                        => pages'[i].archived ]_vars

\* ------------------------------------------------------------------------
\* C27  Bulk reads are fully drained: with no request failing, the scan
\* that computes the map and the scan that fetches the artists to update
\* query until has_more is false; the map has an entry MBID -> record id
\* for the MBID of every record of every result page, and the to-update
\* list holds exactly the MBIDs of the artist records, on any result page,
\* whose "To update" checkbox is set, each of them a key of the returned map.
\* ------------------------------------------------------------------------
C27_BulkReadsDrained ==
    ( run.op \in {"compute_map", "fetch_artists", "query_updates"}
      /\ run.done /\ ~StoreFailed(run.calls) )
    => /\ run.err = "none"
       /\ run.op \in {"compute_map", "fetch_artists"}
             => /\ Len(run.calls) = (Len(pages) + PageSize - 1) \div PageSize
                      \/ (Len(pages) = 0 /\ Len(run.calls) = 1)
                /\ \A i \in 1..Len(pages) :
                      /\ pages[i].mbid \in DOMAIN run.map
                      /\ \E j \in 1..Len(pages) :
                            /\ pages[j].mbid = pages[i].mbid
                            /\ run.map[pages[i].mbid] = get_page_id(j)
       /\ run.op \in {"fetch_artists", "query_updates"}
             => Range(run.to_update) =
                   {pages[i].mbid : i \in {j \in 1..Len(pages) :
                                              get_page_id(j) \in run.marked}}
       /\ run.op = "fetch_artists"
             => Range(run.to_update) \subseteq DOMAIN run.map

\* ------------------------------------------------------------------------
\* C28  The redirect retry covers the missing subset only: every requested
\* release group that the dataset mapped before the refresh is a key of the
\* returned map, with the canonical release it had before the refresh.
\* ------------------------------------------------------------------------
C28_RetryKeepsMapped ==
    ( run.op = "release_map" /\ run.done /\ run.out.err = "none" )
    => \A g \in Range(run.release_group_mbids) \cap DOMAIN run.canonical_release_df :
          /\ g \in DOMAIN run.out.result
          /\ run.out.result[g] = run.canonical_release_df[g]

\* ------------------------------------------------------------------------
\* C29  Release-group browsing paginates until a short page:
\* browse_release_groups_by_artist requests successive pages, the offset
\* advancing by browse_limit; it stops exactly when a page with fewer than
\* browse_limit entries is returned; it terminates; and it returns every
\* release group of every fetched page with no excluded secondary type.
\* ------------------------------------------------------------------------
C29_BrowseUntilShortPage ==
    /\ [][ run'.requests # run.requests
           => /\ ~run.short
              /\ run'.requests = run.requests + 1
              /\ ~run'.failed =>
                    /\ run'.offset = run.offset + run.browse_limit
                    /\ run'.fetched = run.fetched \o
                          browse_release_groups(run.catalog, run.browse_limit,
                                                run.offset) ]_vars
    /\ []( (run.done /\ ~run.failed)
              => /\ run.short
                 /\ run.fetched = run.catalog
                 /\ run.release_groups =
                       SelectSeq(run.fetched,
                                 LAMBDA g : Range(g.secondary) \cap
                                               {"Live", "Compilation"} = {}) )
    /\ []( (run.short /\ ~run.failed) => run.done )
    /\ <>(run.done)

\* ------------------------------------------------------------------------
\* C30  Materialization touches only missing artists, once each: in one
\* synchronization, an artist that is already a key of the map is neither
\* fetched nor written, each missing credited artist is fetched at most
\* once and synchronized at most once, even when the credit list repeats
\* it, and the synchronization of an artist fetches nothing.
\* ------------------------------------------------------------------------
C30_MissingArtistsOnce ==
    [][ last'.op = "sync"
        => LET e == last'.ent
               calls == last'.calls
           IN  /\ e.kind = "artist" => Count(calls, "fetch") = 0
               /\ e.kind # "artist" =>
                     \A m \in ArtistMBIDs :
                        /\ m \in DOMAIN map =>
                              /\ CountOn(calls, "fetch", m) = 0
                              /\ CountOn(calls, "query", m) = 0
                              /\ CountOn(calls, "props", m) = 0
                              /\ CountOn(calls, "create", m) = 0
                        /\ m \notin Range(e.artists) => CountOn(calls, "fetch", m) = 0
                        /\ CountOn(calls, "fetch", m) <= 1
                        /\ CountOn(calls, "query", m) <= 1
                        /\ CountOn(calls, "props", m) <= 1
                        /\ CountOn(calls, "create", m) <= 1 ]_vars

\* An artist credited twice was missing and was fetched and created once.
C30_Witness ==
    /\ last.op = "sync" /\ last.ent.kind # "artist"
    /\ last.ent.artists = <<"a2", "a2">>
    /\ CountOn(last.calls, "fetch", "a2") = 1
    /\ CountOn(last.calls, "create", "a2") = 1
    /\ last.err = "none"

====
